---- MODULE Spec2Model ----
(***************************************************************************)
(* Model of src/Python/rename_spanish_mp3.py: the heuristic title          *)
(* extractor (extract_title and its cleaning helpers) and the batch        *)
(* renamer main (discovery, collision planning, preview, CSV log, apply).  *)
(*                                                                         *)
(* A character is a one-character string; characters outside ASCII are     *)
(* written "U+XXXX".  A Python str is a sequence of characters.            *)
(***************************************************************************)
EXTENDS Integers, Sequences, FiniteSets, TLC

\* Unicode code point of every character the model uses (Python's ord).
Ord ==
  "\t" :> 9 @@ "\n" :> 10 @@ " " :> 32 @@ "!" :> 33 @@ "\"" :> 34 @@ "#" :> 35 @@
  "$" :> 36 @@ "%" :> 37 @@ "&" :> 38 @@ "'" :> 39 @@ "(" :> 40 @@ ")" :> 41 @@
  "*" :> 42 @@ "+" :> 43 @@ "," :> 44 @@ "-" :> 45 @@ "." :> 46 @@ "/" :> 47 @@
  "0" :> 48 @@ "1" :> 49 @@ "2" :> 50 @@ "3" :> 51 @@ "4" :> 52 @@ "5" :> 53 @@
  "6" :> 54 @@ "7" :> 55 @@ "8" :> 56 @@ "9" :> 57 @@ ":" :> 58 @@ ";" :> 59 @@
  "<" :> 60 @@ "=" :> 61 @@ ">" :> 62 @@ "?" :> 63 @@ "@" :> 64 @@ "A" :> 65 @@
  "B" :> 66 @@ "C" :> 67 @@ "D" :> 68 @@ "E" :> 69 @@ "F" :> 70 @@ "G" :> 71 @@
  "H" :> 72 @@ "I" :> 73 @@ "J" :> 74 @@ "K" :> 75 @@ "L" :> 76 @@ "M" :> 77 @@
  "N" :> 78 @@ "O" :> 79 @@ "P" :> 80 @@ "Q" :> 81 @@ "R" :> 82 @@ "S" :> 83 @@
  "T" :> 84 @@ "U" :> 85 @@ "V" :> 86 @@ "W" :> 87 @@ "X" :> 88 @@ "Y" :> 89 @@
  "Z" :> 90 @@ "[" :> 91 @@ "\\" :> 92 @@ "]" :> 93 @@ "^" :> 94 @@ "_" :> 95 @@
  "a" :> 97 @@ "b" :> 98 @@ "c" :> 99 @@ "d" :> 100 @@ "e" :> 101 @@
  "f" :> 102 @@ "g" :> 103 @@ "h" :> 104 @@ "i" :> 105 @@ "j" :> 106 @@ "k" :> 107 @@
  "l" :> 108 @@ "m" :> 109 @@ "n" :> 110 @@ "o" :> 111 @@ "p" :> 112 @@ "q" :> 113 @@
  "r" :> 114 @@ "s" :> 115 @@ "t" :> 116 @@ "u" :> 117 @@ "v" :> 118 @@ "w" :> 119 @@
  "x" :> 120 @@ "y" :> 121 @@ "z" :> 122 @@ "{" :> 123 @@ "|" :> 124 @@ "}" :> 125 @@
  "~" :> 126 @@ "U+00A0" :> 160 @@ "U+00C9" :> 201 @@ "U+00E9" :> 233 @@
  "U+00D7" :> 215 @@ "U+2013" :> 8211 @@ "U+2014" :> 8212 @@ "U+2600" :> 9728 @@
  "U+1F3A7" :> 127911 @@ "U+1F525" :> 128293

Chr(n) == CHOOSE c \in DOMAIN Ord : Ord[c] = n

\* ---------------------------------------------------------------- classes

\* code points of str.isspace and of regex \s on str patterns (up to U+00FF)
SpaceCodes == (9..13) \cup (28..32) \cup {133, 160}

IsSpace(c) == Ord[c] \in SpaceCodes

\* code points of regex [\w\d] with re.UNICODE: letters, digits, the underscore
WordCodes ==
  (48..57) \cup (65..90) \cup {95} \cup (97..122) \cup {170, 181, 186}
    \cup (192..214) \cup (216..246) \cup (248..255)

IsWord(c) == Ord[c] \in WordCodes

\* code points whose character isupper()
UpperCodes == (65..90) \cup (192..214) \cup (216..222)

IsUpper(c) == Ord[c] \in UpperCodes

\* regex [A-Z]
IsAsciiUpper(c) == Ord[c] \in 65..90

\* code points of regex [A-Za-z]
AsciiLetterCodes == (65..90) \cup (97..122)

IsAsciiLetter(c) == Ord[c] \in AsciiLetterCodes

\* code points of regex [A-Za-z\u00C0-\u00D6\u00D8-\u00F6\u00F8-\u00FF] of score
LatinLetterCodes ==
  (65..90) \cup (97..122) \cup (192..214) \cup (216..246) \cup (248..255)

IsLatinLetter(c) == Ord[c] \in LatinLetterCodes

\* EMOJI_PATTERN's character class
IsEmoji(c) ==
  \/ Ord[c] \in 127744..128511
  \/ Ord[c] \in 128512..128591
  \/ Ord[c] \in 128640..128767
  \/ Ord[c] \in 128768..128895
  \/ Ord[c] \in 128896..129023
  \/ Ord[c] \in 129024..129279
  \/ Ord[c] \in 129280..129535
  \/ Ord[c] \in 129536..129647
  \/ Ord[c] \in 129648..129791
  \/ Ord[c] \in 9728..9983
  \/ Ord[c] \in 9984..10175

\* regex [<>:"/\\|?*\x00-\x1f] of make_safe_filename
UnsafeChars == {"<", ">", ":", "\"", "/", "\\", "|", "?", "*"}

IsUnsafe(c) == c \in UnsafeChars \/ Ord[c] \in 0..31

\* the characters of s.strip(" -U+2013 U+2014 _:;,.")
EdgePunct == {" ", "-", "U+2013", "U+2014", "_", ":", ";", ",", "."}

IsEdgePunct(c) == c \in EdgePunct

\* str.lower of a single character.
LowerCh(c) == IF IsUpper(c) THEN Chr(Ord[c] + 32) ELSE c

\* ---------------------------------------------------------------- strings

\* F(x), with x worked out before F is: one statement `s = F(s)` after another
Then(x, F(_)) == [v \in {x} |-> F(v)][x]

Lower(s) == [i \in 1..Len(s) |-> LowerCh(s[i])]

Drop(s, n) == SubSeq(s, n + 1, Len(s))

Count(s, P(_)) == Cardinality({i \in 1..Len(s) : P(s[i])})

\* sub in s
Contains(s, sub) ==
  \E i \in 1..(Len(s) - Len(sub) + 1) : SubSeq(s, i, i + Len(sub) - 1) = sub

\* smallest k >= i with s[k] = c, or 0
FirstIdx(s, i, c) ==
  LET K == {k \in i..Len(s) : s[k] = c}
  IN  IF K = {} THEN 0 ELSE CHOOSE k \in K : \A m \in K : k <= m

\* smallest k >= i whose character is not whitespace, or Len(s) + 1
SkipSpace(s, i) ==
  LET K == {k \in i..Len(s) : ~IsSpace(s[k])}
  IN  IF K = {} THEN Len(s) + 1 ELSE CHOOSE k \in K : \A m \in K : k <= m

\* str.strip()
Strip(s) ==
  LET K == {k \in 1..Len(s) : ~IsSpace(s[k])}
  IN  IF K = {} THEN <<>>
      ELSE SubSeq(s, CHOOSE k \in K : \A m \in K : k <= m,
                     CHOOSE k \in K : \A m \in K : k >= m)

\* str.strip(chars) for the punctuation set of sanitize_whitespace_and_punct
StripEdgePunct(s) ==
  LET K == {k \in 1..Len(s) : ~IsEdgePunct(s[k])}
  IN  IF K = {} THEN <<>>
      ELSE SubSeq(s, CHOOSE k \in K : \A m \in K : k <= m,
                     CHOOSE k \in K : \A m \in K : k >= m)

\* Python's str ordering: by code point, a proper prefix first.
RECURSIVE StrLess(_, _)
StrLess(a, b) ==
  IF b = <<>> THEN FALSE
  ELSE IF a = <<>> THEN TRUE
  ELSE IF Ord[Head(a)] # Ord[Head(b)] THEN Ord[Head(a)] < Ord[Head(b)]
  ELSE StrLess(Tail(a), Tail(b))

DigitCh == <<"0", "1", "2", "3", "4", "5", "6", "7", "8", "9">>

\* str(n) for a natural number, as the f-string formats the counter
RECURSIVE Str(_)
Str(n) == IF n < 10 THEN <<DigitCh[n + 1]>> ELSE Str(n \div 10) \o <<DigitCh[(n % 10) + 1]>>

\* ---------------------------------------------------------------- Noise Stripper

\* the words of r'how\s*to\s*spanish\s*podcast'
TagWords ==
  << <<"h", "o", "w">>, <<"t", "o">>, <<"s", "p", "a", "n", "i", "s", "h">>,
     <<"p", "o", "d", "c", "a", "s", "t">> >>

\* s[i..] starts with the literal w, ignoring case
MatchLit(s, i, w) ==
  /\ i + Len(w) - 1 <= Len(s)
  /\ Lower(SubSeq(s, i, i + Len(w) - 1)) = w

\* index after a match of the pattern's words k.. at s[i..], or 0
RECURSIVE TagEnd(_, _, _)
TagEnd(s, i, k) ==
  IF ~MatchLit(s, i, TagWords[k]) THEN 0
  ELSE IF k = Len(TagWords) THEN i + Len(TagWords[k])
  ELSE TagEnd(s, SkipSpace(s, i + Len(TagWords[k])), k + 1)

\* re.sub(pattern, '', s[i..]): leftmost matches, left to right, not overlapping
RECURSIVE SubTags(_, _)
SubTags(s, i) ==
  IF i > Len(s) THEN <<>>
  ELSE LET e == TagEnd(s, i, 1)
       IN  IF e > 0 THEN SubTags(s, e) ELSE <<s[i]>> \o SubTags(s, i + 1)

remove_known_tags(s) == SubTags(s, 1)

remove_emojis(s) == SelectSeq(s, LAMBDA c : ~IsEmoji(c))

\* re.sub(r'\[[^\]]*\]', '', s[i..])
RECURSIVE SubBrackets(_, _)
SubBrackets(s, i) ==
  IF i > Len(s) THEN <<>>
  ELSE LET k == IF s[i] = "[" THEN FirstIdx(s, i + 1, "]") ELSE 0
       IN  IF k > 0 THEN SubBrackets(s, k + 1) ELSE <<s[i]>> \o SubBrackets(s, i + 1)

\* r'\s*\([^)]*\)\s*$' matches at i: blanks, "(", up to the first ")", blanks, end
TrailingParenAt(s, i) ==
  LET j == SkipSpace(s, i)
  IN  /\ j <= Len(s)
      /\ s[j] = "("
      /\ LET k == FirstIdx(s, j + 1, ")")
         IN  k > 0 /\ SkipSpace(s, k + 1) > Len(s)

\* re.sub(r'\s*\([^)]*\)\s*$', '', s): the leftmost match runs to the end
SubTrailingParen(s) ==
  LET M == {i \in 1..Len(s) : TrailingParenAt(s, i)}
  IN  IF M = {} THEN s
      ELSE SubSeq(s, 1, (CHOOSE i \in M : \A m \in M : i <= m) - 1)

\* re.sub(r'\([^)]*\)', ' ', s[i..])
RECURSIVE SubParens(_, _)
SubParens(s, i) ==
  IF i > Len(s) THEN <<>>
  ELSE LET k == IF s[i] = "(" THEN FirstIdx(s, i + 1, ")") ELSE 0
       IN  IF k > 0 THEN <<" ">> \o SubParens(s, k + 1)
           ELSE <<s[i]>> \o SubParens(s, i + 1)

\* re.sub(r'\[[^\]]*\]', '', s)
SubAllBrackets(s) == SubBrackets(s, 1)

\* re.sub(r'\([^)]*\)', ' ', s)
SubAllParens(s) == SubParens(s, 1)

strip_brackets_and_parentheses(s) ==
  Then(Then(Then(s, SubAllBrackets), SubTrailingParen), SubAllParens)

\* re.sub(r'^[^\w\d]+', '', s)
strip_leading_noise(s) ==
  LET K == {k \in 1..Len(s) : IsWord(s[k])}
  IN  IF K = {} THEN <<>> ELSE Drop(s, (CHOOSE k \in K : \A m \in K : k <= m) - 1)

\* re.sub(r'[^\w\d]+$', '', s)
strip_trailing_noise(s) ==
  LET K == {k \in 1..Len(s) : IsWord(s[k])}
  IN  IF K = {} THEN <<>> ELSE SubSeq(s, 1, CHOOSE k \in K : \A m \in K : k >= m)

\* re.sub(r'\s+', ' ', s[i..])
RECURSIVE CollapseSpace(_, _)
CollapseSpace(s, i) ==
  IF i > Len(s) THEN <<>>
  ELSE IF IsSpace(s[i]) THEN <<" ">> \o CollapseSpace(s, SkipSpace(s, i))
  ELSE <<s[i]>> \o CollapseSpace(s, i + 1)

\* re.sub(r'\s+', ' ', s)
CollapseSpaces(s) == CollapseSpace(s, 1)

sanitize_whitespace_and_punct(s) ==
  Then(Then(Then(s, CollapseSpaces), Strip), StripEdgePunct)

\* re.sub(r'[<>:"/\\|?*\x00-\x1f]', '', s)
RemoveUnsafe(s) == SelectSeq(s, LAMBDA c : ~IsUnsafe(c))

\* make_safe_filename with its two lines in the other order
make_safe_filename_strip_first(s) == Then(Then(s, Strip), RemoveUnsafe)

make_safe_filename(s) == Then(Then(s, RemoveUnsafe), Strip)

\* ---------------------------------------------------------------- Segment Scorer

TagKeywords ==
  << <<"l", "i", "s", "t", "e", "n", "i", "n", "g">>,
     <<"s", "p", "a", "n", "i", "s", "h">>,
     <<"a", "u", "d", "i", "o">>,
     <<"p", "o", "d", "c", "a", "s", "t">>,
     <<"l", "e", "c", "t", "u", "r", "e">>,
     <<"m", "p", "3">> >>

\* the words re.findall(r"\b\w+\b", seg) finds whose first character isupper()
TitleWords(seg) ==
  Cardinality({i \in 1..Len(seg) :
                 /\ IsWord(seg[i])
                 /\ (i = 1 \/ ~IsWord(seg[i - 1]))
                 /\ IsUpper(seg[i])})

score(seg) ==
  LET alpha_count == Count(seg, IsLatinLetter)
      title_words == TitleWords(seg)
      tag_penalty == 5 * Cardinality({t \in 1..Len(TagKeywords) :
                                        Contains(Lower(seg), TagKeywords[t])})
  IN  alpha_count + title_words * 5 - tag_penalty

\* tuple order of (score, stripped segment)
ScoredLess(a, b) == a[1] < b[1] \/ (a[1] = b[1] /\ StrLess(a[2], b[2]))

\* scored.sort(reverse=True); scored[0][1], '' for no segments
choose_best_segment(segments) ==
  LET scored == {<<score(segments[i]), Strip(segments[i])>> : i \in 1..Len(segments)}
  IN  IF scored = {} THEN <<>>
      ELSE (CHOOSE b \in scored : \A o \in scored : ~ScoredLess(b, o))[2]

\* ---------------------------------------------------------------- Title Extractor

SepChars == {"-", "U+2014", "U+2013", ":"}

\* ' - ' in s or ' U+2014 ' in s or ' U+2013 ' in s or ':' in s
HasSeparator(s) ==
  \/ Contains(s, <<" ", "-", " ">>)
  \/ Contains(s, <<" ", "U+2014", " ">>)
  \/ Contains(s, <<" ", "U+2013", " ">>)
  \/ Contains(s, <<":">>)

\* r'\s[-U+2014 U+2013:]\s' matches at i
SepAt(s, i) ==
  /\ i + 2 <= Len(s)
  /\ IsSpace(s[i])
  /\ s[i + 1] \in SepChars
  /\ IsSpace(s[i + 2])

\* re.split(r'\s[-U+2014 U+2013:]\s', s): cur is the part read so far, from s[i..]
RECURSIVE SplitFrom(_, _, _)
SplitFrom(s, i, cur) ==
  IF i > Len(s) THEN <<cur>>
  ELSE IF SepAt(s, i) THEN <<cur>> \o SplitFrom(s, i + 3, <<>>)
  ELSE SplitFrom(s, i + 1, Append(cur, s[i]))

SplitSeparators(s) == SplitFrom(s, 1, <<>>)

\* length of the leading run of [A-Z]
UpperRun(s) ==
  LET K == {k \in 1..Len(s) : ~IsAsciiUpper(s[k])}
  IN  IF K = {} THEN Len(s) ELSE (CHOOSE k \in K : \A m \in K : k <= m) - 1

\* end of the text .+$ can match: the end, or before one final newline
DotEnd(t) == IF t # <<>> /\ t[Len(t)] = "\n" THEN Len(t) - 1 ELSE Len(t)

\* re.match(r'^([A-Z]{2,20})(\s+.+)$', s) succeeds
PrefixMatches(s) ==
  LET n == UpperRun(s)
      t == Drop(s, n)
  IN  /\ n \in 2..20
      /\ \E k \in 1..Len(t) :
           /\ \A i \in 1..k : IsSpace(t[i])
           /\ \E e \in {DotEnd(t), Len(t)} :
                /\ e > k
                /\ \A i \in (k + 1)..e : t[i] # "\n"

\* m.group(2): what follows the capitals, up to where $ matched
PrefixGroup2(s) ==
  LET t == Drop(s, UpperRun(s))
      ok(e) == \E k \in 1..Len(t) :
                 /\ \A i \in 1..k : IsSpace(t[i])
                 /\ e > k
                 /\ \A i \in (k + 1)..e : t[i] # "\n"
  IN  IF ok(Len(t)) THEN t ELSE SubSeq(t, 1, DotEnd(t))

\* the else branch of extract_title (lines 126-131)
DropCapsPrefix(s) ==
  IF PrefixMatches(s)
  THEN LET candidate == Strip(PrefixGroup2(s))
       IN  IF Count(candidate, IsAsciiLetter) > Count(s, IsAsciiLetter)
           THEN candidate ELSE s
  ELSE s

\* s.replace('_', ' ')
ReplaceUnderscores(s) == [i \in 1..Len(s) |-> IF s[i] = "_" THEN " " ELSE s[i]]

\* lines 104-112
Precleaned(stem) ==
  Then(Then(Then(Then(Then(stem, ReplaceUnderscores), remove_emojis), remove_known_tags),
            strip_brackets_and_parentheses), strip_leading_noise)

\* lines 116-131
Segmented(s) ==
  IF HasSeparator(s) THEN Then(Then(s, SplitSeparators), choose_best_segment)
  ELSE DropCapsPrefix(s)

\* lines 134-137
Finished(s) ==
  Then(Then(Then(Then(s, remove_emojis), sanitize_whitespace_and_punct),
            strip_trailing_noise), make_safe_filename)

\* extract_title without the fallback of lines 140-141
Fallback_absent(s, stem) == s

\* lines 140-141
Fallback(s, stem) == IF s = <<>> THEN make_safe_filename(stem) ELSE s

\* lines 104-137
Cleaned(stem) == Then(Then(Then(stem, Precleaned), Segmented), Finished)

extract_title(stem) == Fallback(Cleaned(stem), stem)

\* ---------------------------------------------------------------- paths

\* A path is the sequence of its parts below the target directory; a part is a string.

\* EXTENSIONS
EXTENSIONS ==
  { <<".", "m", "p", "3">>, <<".", "m", "4", "a">>, <<".", "w", "a", "v">>,
    <<".", "a", "a", "c">> }

\* MAP_CSV
MAP_CSV == <<"r", "e", "n", "a", "m", "e", "_", "m", "a", "p", ".", "c", "s", "v">>

\* name.rfind('.') (1-based; 0 when there is no dot)
LastDot(name) ==
  LET K == {k \in 1..Len(name) : name[k] = "."}
  IN  IF K = {} THEN 0 ELSE CHOOSE k \in K : \A m \in K : k >= m

\* PurePath.suffix
Suffix(name) ==
  LET i == LastDot(name)
  IN  IF 1 < i /\ i < Len(name) THEN SubSeq(name, i, Len(name)) ELSE <<>>

\* PurePath.stem
Stem(name) ==
  LET i == LastDot(name)
  IN  IF 1 < i /\ i < Len(name) THEN SubSeq(name, 1, i - 1) ELSE name

Name(p) == p[Len(p)]

Parent(p) == SubSeq(p, 1, Len(p) - 1)

\* p.with_name(name)
WithName(p, name) == Append(Parent(p), name)

\* PurePath ordering: the lists of parts, compared as Python compares lists of str
RECURSIVE PathLess(_, _)
PathLess(p, q) ==
  IF q = <<>> THEN FALSE
  ELSE IF p = <<>> THEN TRUE
  ELSE IF Head(p) # Head(q) THEN StrLess(Head(p), Head(q))
  ELSE PathLess(Tail(p), Tail(q))

\* sorted(files): the path with i - 1 paths before it comes i-th
Sorted(S) ==
  [i \in 1..Cardinality(S) |->
     CHOOSE f \in S : Cardinality({g \in S : PathLess(g, f)}) = i - 1]

\* ---------------------------------------------------------------- Batch Planner

\* A directory entry: its path and whether it is a regular file (else a directory).
Entry(p, f) == [path |-> p, file |-> f]

\* p.is_file() and p.suffix.lower() in EXTENSIONS
IsAudioFile(e) == e.file /\ Lower(Suffix(Name(e.path))) \in EXTENSIONS

\* directory.rglob('*') or directory.iterdir(), filtered (lines 147-155)
Discovered(d, rec) ==
  {e.path : e \in {e \in d : IsAudioFile(e) /\ (rec \/ Len(e.path) = 1)}}

\* Path.exists()
Exists(d, p) == \E e \in d : e.path = p


\* seen_new_names.get(new_name, 0)
SeenGet(seen, n) == IF n \in DOMAIN seen THEN seen[n] ELSE 0

\* seen_new_names[new_name] = count
SeenPut(seen, n, c) ==
  [k \in (DOMAIN seen) \cup {n} |-> IF k = n THEN c ELSE seen[k]]

\* the numbered candidate with the counter left out of the name
Numbered_fixed(base, c, p) ==
  base \o <<" ", "(", "1", ")">> \o Lower(Suffix(Name(p)))

\* f"{base} ({count}){p.suffix.lower()}"
Numbered(base, c, p) ==
  base \o <<" ", "(">> \o Str(c) \o <<")">> \o Lower(Suffix(Name(p)))

\* line 170 with is_file() in place of exists()
TakenOnDisk_files_only(d, cand, p) == Entry(cand, TRUE) \in d /\ cand # p

\* candidate_path.exists() and candidate_path != p  (line 170)
TakenOnDisk(d, cand, p) == Exists(d, cand) /\ cand # p

\* line 177 comparing the planned sources, not the destinations
TakenInPlan_by_source(m, cand, p) ==
  \E i \in 1..Len(m) :
    /\ Parent(m[i][1]) = Parent(p)
    /\ m[i][1] # p
    /\ m[i][1] = cand

\* any(dst == candidate_path for _, dst in mapping
\*     if dst.parent == p.parent and dst != p)  (line 177)
TakenInPlan(m, cand, p) ==
  \E i \in 1..Len(m) :
    /\ Parent(m[i][2]) = Parent(p)
    /\ m[i][2] # p
    /\ m[i][2] = cand

\* lines 191, 211 with the test never true
IsNoop_never(e) == FALSE

\* src == dst  (lines 191, 211)
IsNoop(e) == e[1] = e[2]

\* lines 172, 178 adding two
Bumped_twice(c) == c + 2

\* count += 1  (lines 172, 178)
Bumped(c) == c + 1

\* ---------------------------------------------------------------- Executor/Reporter

\* str(path): the parts joined by "/"
RECURSIVE PathStr(_)
PathStr(p) ==
  IF Len(p) = 1 THEN p[1] ELSE p[1] \o <<"/">> \o PathStr(Tail(p))

\* writer.writerow(['old_path', 'new_path'])
CsvHeader ==
  << <<"o", "l", "d", "_", "p", "a", "t", "h">>, <<"n", "e", "w", "_", "p", "a", "t", "h">> >>

\* writer.writerow([str(src), str(dst)])
CsvRow(e) == <<PathStr(e[1]), PathStr(e[2])>>

\* a line of output: what is printed and the values formatted into it
Line(k, a, b, n) == [kind |-> k, a |-> a, b |-> b, n |-> n]

\* the row loop of line 201 stopping one entry early
LogLoopDone_early(m, k) == k >= Len(m)

\* the loop of lines 200-201 has written every entry
LogLoopDone(m, k) == k > Len(m)

\* the preview of lines 189-194
PreviewLines(m) ==
  <<Line("Found", <<>>, <<>>, Len(m))>> \o
  [i \in 1..Len(m) |->
     IF IsNoop(m[i]) THEN Line("SKIP (same)", Name(m[i][1]), <<>>, 0)
     ELSE Line("->", Name(m[i][1]), Name(m[i][2]), 0)]

\* line 204 with the flag read the other way round
StopsBeforeRenaming_inverted(a) == a

\* if not apply: ... return  (lines 204-206)
StopsBeforeRenaming(a) == ~a

\* Path.rename(dst) on a filesystem nobody else changes: the entry moves, replacing
\* a regular file already at dst
Renamed(d, src, dst) ==
  {e \in d : e.path # src /\ e.path # dst} \cup {Entry(dst, TRUE)}

\* rename can succeed: the source is there and dst is not a directory
CanRename(d, src, dst) ==
  /\ Entry(src, TRUE) \in d
  /\ Entry(dst, FALSE) \notin d

\* ---------------------------------------------------------------- bounds and inputs

\* most entries of the target tree that Init chooses
MaxEntries == 4

\* the collision counter is unbounded in the code; no reachable state gets near this
MaxCount == 8

\* most pieces an input string of the title extractor is put together from
MaxPieces == 3

Ep == <<"E", "p">>

Mp3 == <<".", "m", "p", "3">>

DirD == << <<"d">> >>

\* the entries Init may put into the target tree
Pool ==
  { Entry(<<Ep \o Mp3>>, TRUE),
    Entry(<<Ep \o <<"!">> \o Mp3>>, TRUE),
    Entry(<<Ep \o <<"_">> \o Mp3>>, TRUE),
    Entry(<<Ep \o <<"!", ".", "M", "P", "3">> >>, TRUE),
    Entry(<<Ep \o <<" ", "(", "1", ")">> \o Mp3>>, TRUE),
    Entry(<<Ep \o <<" ", "(", "1", ")">> \o Mp3>>, FALSE),
    Entry(DirD \o <<Ep \o <<"!">> \o Mp3>>, TRUE),
    Entry(DirD \o <<Ep \o <<"_">> \o Mp3>>, TRUE) }

\* extract_title(p.stem)
TitleOf(p) == extract_title(Stem(Name(p)))

\* new_title + p.suffix.lower()
NewNameOf(p) == TitleOf(p) \o Lower(Suffix(Name(p)))

LogEntry == Entry(<<MAP_CSV>>, TRUE)

\* a log left by an earlier run
StaleLog == <<CsvHeader, << <<"x">>, <<"y">> >> >>

\* the trees Init chooses from: no path twice, the directory of every file present
Trees ==
  { S \cup (IF \E e \in S : Len(e.path) > 1 THEN {Entry(DirD, FALSE)} ELSE {}) :
      S \in { S \in SUBSET Pool :
                /\ Cardinality(S) <= MaxEntries
                /\ \A e, f \in S : e.path = f.path => e = f } }

\* the pieces input stems are put together from
Pieces ==
  { <<"a">>, <<"A", "B">>, <<" ">>, <<"_">>, <<"?">>, <<"(">>, <<")">>, <<" ", "-", " ">>,
    <<"h", "o", "w", " ", "t", "o", " ", "S", "p", "a", "n", "i", "s", "h", " ", "p", "o", "d">>,
    <<"c", "a", "s", "t">> }

RECURSIVE Concat(_)
Concat(ps) == IF ps = <<>> THEN <<>> ELSE Head(ps) \o Concat(Tail(ps))

\* stems of the specification's examples
Examples ==
  { <<"S", "P", "A", "N", "I", "S", "H", " ", "L", "e", "a", "r", "n", " ", "T", "o", " ",
      "C", "o", "o", "k", " ", "T", "a", "c", "o", "s">>,
    <<"U+1F3A7", " ", "H", "o", "w", " ", "T", "o", " ", "S", "p", "a", "n", "i", "s", "h",
      " ", "P", "o", "d", "c", "a", "s", "t", ":", " ", "E", "p", " ", "1", "2", " ",
      "U+1F525">>,
    <<"A", "B", " ", "-", " ", "M", "y", " ", "E", "p", " ", "(", "1", "2", "8", "k", ")">>,
    <<"[", "a", "]">>, <<"[", "[", "a", "]", "]", " ", "(", "b", ")">>,
    <<"h", "o", "w", "H", "o", "w", " ", "T", "o", " ", "S", "p", "a", "n", "i", "s", "h", " ",
      "P", "o", "d", "c", "a", "s", "t", " ", "t", "o", "s", "p", "a", "n", "i", "s", "h",
      "p", "o", "d", "c", "a", "s", "t">>,
    <<"U+00A0">>, <<"\t">>, <<"a", " ", "U+2014", " ", "B">> }

Inputs ==
  Examples \cup
  UNION { {Concat(ps) : ps \in [1..n -> Pieces]} : n \in 0..MaxPieces }

Transforms ==
  { "remove_known_tags", "remove_emojis", "strip_brackets_and_parentheses",
    "strip_leading_noise", "strip_trailing_noise", "sanitize_whitespace_and_punct",
    "make_safe_filename" }

\* the transform named f, applied to s
Transform(f, s) ==
  CASE f = "remove_known_tags" -> remove_known_tags(s)
    [] f = "remove_emojis" -> remove_emojis(s)
    [] f = "strip_brackets_and_parentheses" -> strip_brackets_and_parentheses(s)
    [] f = "strip_leading_noise" -> strip_leading_noise(s)
    [] f = "strip_trailing_noise" -> strip_trailing_noise(s)
    [] f = "sanitize_whitespace_and_punct" -> sanitize_whitespace_and_punct(s)
    [] f = "make_safe_filename" -> make_safe_filename(s)

\* ---------------------------------------------------------------- state

VARIABLES
  disk,            \* the entries of the target directory tree
  disk0,           \* the tree as main found it
  apply,           \* --apply
  recursive,       \* --recursive
  cwdInTree,       \* the working directory, where MAP_CSV is written, is the target directory
  csv,             \* the rows of the log file MAP_CSV
  pc,              \* where main is
  files,           \* sorted(files)
  mapping,         \* tuples (old_path, new_path)
  seen_new_names,  \* new_name -> count
  idx,             \* position of the planning loop in files
  new_title,       \* locals of the planning loop
  new_name,
  count,
  candidate_name,
  tried,           \* the candidates the collision loop has rejected for this file
  li,              \* position of the log loop in mapping
  ri,              \* position of the rename loop in mapping
  renamed,         \* files renamed so far
  attempted,       \* positions of mapping whose rename was called, in call order
  out,             \* lines printed
  tpc,             \* where extract_title, or a transform under test, is
  stem,            \* filename_no_ext
  s,               \* extract_title's s
  fn,              \* the transform applied twice
  y1,              \* fn(stem)
  y2               \* fn(fn(stem))

mainVars ==
  <<disk, disk0, apply, recursive, cwdInTree, csv, pc, files, mapping, seen_new_names,
    idx, new_title, new_name, count, candidate_name, tried, li, ri, renamed, attempted, out>>

titleVars == <<tpc, stem, s, fn, y1, y2>>

vars == <<mainVars, titleVars>>

p == files[idx]

candidate_path == WithName(p, candidate_name)

MainIdle ==
  /\ disk = {} /\ disk0 = {} /\ apply = FALSE /\ recursive = FALSE /\ cwdInTree = FALSE
  /\ csv = <<>> /\ pc = "idle" /\ files = <<>> /\ mapping = <<>> /\ seen_new_names = <<>>
  /\ idx = 1 /\ new_title = <<>> /\ new_name = <<>> /\ count = 0 /\ candidate_name = <<>>
  /\ tried = {}
  /\ li = 1 /\ ri = 1 /\ renamed = 0 /\ attempted = <<>> /\ out = <<>>

TitleIdle ==
  /\ tpc = "idle" /\ stem = <<>> /\ s = <<>> /\ fn = "none" /\ y1 = <<>> /\ y2 = <<>>

\* main is called on a tree, with its flags
Init ==
  /\ apply \in BOOLEAN
  /\ recursive \in BOOLEAN
  /\ cwdInTree \in BOOLEAN
  /\ csv \in {<<>>, StaleLog}
  /\ \E t \in Trees : disk = t \cup (IF cwdInTree /\ csv # <<>> THEN {LogEntry} ELSE {})
  /\ disk0 = disk
  /\ pc = "discover" /\ files = <<>> /\ mapping = <<>> /\ seen_new_names = <<>>
  /\ idx = 1 /\ new_title = <<>> /\ new_name = <<>> /\ count = 0 /\ candidate_name = <<>>
  /\ tried = {}
  /\ li = 1 /\ ri = 1 /\ renamed = 0 /\ attempted = <<>> /\ out = <<>>
  /\ TitleIdle

\* ---------------------------------------------------------------- main

\* lines 147-160: discovery and the sort
Discover ==
  /\ pc = "discover"
  /\ files' = Sorted(Discovered(disk, recursive))
  /\ idx' = 1
  /\ pc' = "plan"
  /\ UNCHANGED <<disk, disk0, apply, recursive, cwdInTree, csv, mapping, seen_new_names,
                 new_title, new_name, count, candidate_name, tried, li, ri, renamed, attempted, out>>
  /\ UNCHANGED titleVars

\* lines 160-166: the next file, its title and its first candidate
PlanFile ==
  /\ pc = "plan"
  /\ idx <= Len(files)
  /\ new_title' = TitleOf(p)
  /\ new_name' = new_title' \o Lower(Suffix(Name(p)))
  /\ count' = SeenGet(seen_new_names, new_name')
  /\ candidate_name' = new_name'
  /\ tried' = {}
  /\ pc' = "resolve"
  /\ UNCHANGED <<disk, disk0, apply, recursive, cwdInTree, csv, files, mapping,
                 seen_new_names, idx, li, ri, renamed, attempted, out>>
  /\ UNCHANGED titleVars

\* lines 170-175: the candidate is another entry of the directory
BumpOnDisk ==
  /\ pc = "resolve"
  /\ count < MaxCount
  /\ TakenOnDisk(disk, candidate_path, p)
  /\ count' = Bumped(count)
  /\ candidate_name' = Numbered(new_title, Bumped(count), p)
  /\ tried' = tried \cup {candidate_name}
  /\ UNCHANGED <<disk, disk0, apply, recursive, cwdInTree, csv, pc, files, mapping,
                 seen_new_names, idx, new_title, new_name, li, ri, renamed, attempted, out>>
  /\ UNCHANGED titleVars

\* lines 177-181: the candidate is planned for another file of the directory
BumpInPlan ==
  /\ pc = "resolve"
  /\ count < MaxCount
  /\ ~TakenOnDisk(disk, candidate_path, p)
  /\ TakenInPlan(mapping, candidate_path, p)
  /\ count' = Bumped(count)
  /\ candidate_name' = Numbered(new_title, Bumped(count), p)
  /\ tried' = tried \cup {candidate_name}
  /\ UNCHANGED <<disk, disk0, apply, recursive, cwdInTree, csv, pc, files, mapping,
                 seen_new_names, idx, new_title, new_name, li, ri, renamed, attempted, out>>
  /\ UNCHANGED titleVars

\* lines 182-186: the candidate is free
PlanCommit ==
  /\ pc = "resolve"
  /\ ~TakenOnDisk(disk, candidate_path, p)
  /\ ~TakenInPlan(mapping, candidate_path, p)
  /\ seen_new_names' = SeenPut(seen_new_names, new_name, count)
  /\ mapping' = Append(mapping, <<p, WithName(p, candidate_name)>>)
  /\ idx' = idx + 1
  /\ pc' = "plan"
  /\ UNCHANGED <<disk, disk0, apply, recursive, cwdInTree, csv, files, new_title, new_name,
                 count, candidate_name, tried, li, ri, renamed, attempted, out>>
  /\ UNCHANGED titleVars

\* lines 189-194: the preview
Preview ==
  /\ pc = "plan"
  /\ idx > Len(files)
  /\ out' = out \o PreviewLines(mapping)
  /\ pc' = "log"
  /\ UNCHANGED <<disk, disk0, apply, recursive, cwdInTree, csv, files, mapping,
                 seen_new_names, idx, new_title, new_name, count, candidate_name, tried, li, ri,
                 renamed, attempted>>
  /\ UNCHANGED titleVars

\* lines 197-199: open(MAP_CSV, 'w') truncates or creates the log; the header row
LogOpen ==
  /\ pc = "log"
  /\ csv' = <<CsvHeader>>
  /\ disk' = IF cwdInTree THEN disk \cup {LogEntry} ELSE disk
  /\ li' = 1
  /\ pc' = "logrows"
  /\ UNCHANGED <<disk0, apply, recursive, cwdInTree, files, mapping, seen_new_names, idx,
                 new_title, new_name, count, candidate_name, tried, ri, renamed, attempted, out>>
  /\ UNCHANGED titleVars

\* lines 200-201: one row
LogRow ==
  /\ pc = "logrows"
  /\ ~LogLoopDone(mapping, li)
  /\ csv' = Append(csv, CsvRow(mapping[li]))
  /\ li' = li + 1
  /\ UNCHANGED <<disk, disk0, apply, recursive, cwdInTree, pc, files, mapping,
                 seen_new_names, idx, new_title, new_name, count, candidate_name, tried, ri,
                 renamed, attempted, out>>
  /\ UNCHANGED titleVars

\* line 202: the file is closed
LogClose ==
  /\ pc = "logrows"
  /\ LogLoopDone(mapping, li)
  /\ out' = Append(out, Line("Mapping saved", MAP_CSV, <<>>, 0))
  /\ pc' = "mode"
  /\ UNCHANGED <<disk, disk0, apply, recursive, cwdInTree, csv, files, mapping,
                 seen_new_names, idx, new_title, new_name, count, candidate_name, tried, li, ri,
                 renamed, attempted>>
  /\ UNCHANGED titleVars

\* lines 204-206: the dry run returns
DryRunReturn ==
  /\ pc = "mode"
  /\ StopsBeforeRenaming(apply)
  /\ out' = Append(out, Line("Dry-run complete", <<>>, <<>>, 0))
  /\ pc' = "done"
  /\ UNCHANGED <<disk, disk0, apply, recursive, cwdInTree, csv, files, mapping,
                 seen_new_names, idx, new_title, new_name, count, candidate_name, tried, li, ri,
                 renamed, attempted>>
  /\ UNCHANGED titleVars

\* lines 208-210: renaming starts
ApplyStart ==
  /\ pc = "mode"
  /\ ~StopsBeforeRenaming(apply)
  /\ renamed' = 0
  /\ ri' = 1
  /\ pc' = "rename"
  /\ UNCHANGED <<disk, disk0, apply, recursive, cwdInTree, csv, files, mapping,
                 seen_new_names, idx, new_title, new_name, count, candidate_name, tried, li,
                 attempted, out>>
  /\ UNCHANGED titleVars

\* lines 211-212: an entry that renames nothing
RenameSkip ==
  /\ pc = "rename"
  /\ ri <= Len(mapping)
  /\ IsNoop(mapping[ri])
  /\ ri' = ri + 1
  /\ UNCHANGED <<disk, disk0, apply, recursive, cwdInTree, csv, pc, files, mapping,
                 seen_new_names, idx, new_title, new_name, count, candidate_name, tried, li,
                 renamed, attempted, out>>
  /\ UNCHANGED titleVars

\* lines 214-215: src.rename(dst) returns
RenameOk ==
  /\ pc = "rename"
  /\ ri <= Len(mapping)
  /\ ~IsNoop(mapping[ri])
  /\ CanRename(disk, mapping[ri][1], mapping[ri][2])
  /\ disk' = Renamed(disk, mapping[ri][1], mapping[ri][2])
  /\ renamed' = renamed + 1
  /\ attempted' = Append(attempted, ri)
  /\ ri' = ri + 1
  /\ UNCHANGED <<disk0, apply, recursive, cwdInTree, csv, pc, files, mapping,
                 seen_new_names, idx, new_title, new_name, count, candidate_name, tried, li, out>>
  /\ UNCHANGED titleVars

\* lines 214, 216-217: src.rename(dst) raises (permissions, a read-only directory, ...)
RenameFail ==
  /\ pc = "rename"
  /\ ri <= Len(mapping)
  /\ ~IsNoop(mapping[ri])
  /\ attempted' = Append(attempted, ri)
  /\ out' = Append(out, Line("FAILED to rename", PathStr(mapping[ri][1]),
                             PathStr(mapping[ri][2]), ri))
  /\ ri' = ri + 1
  /\ UNCHANGED <<disk, disk0, apply, recursive, cwdInTree, csv, pc, files, mapping,
                 seen_new_names, idx, new_title, new_name, count, candidate_name, tried, li,
                 renamed>>
  /\ UNCHANGED titleVars

\* line 219: the count is reported
RenameDone ==
  /\ pc = "rename"
  /\ ri > Len(mapping)
  /\ out' = Append(out, Line("Rename complete", <<>>, <<>>, renamed))
  /\ pc' = "done"
  /\ UNCHANGED <<disk, disk0, apply, recursive, cwdInTree, csv, files, mapping,
                 seen_new_names, idx, new_title, new_name, count, candidate_name, tried, li, ri,
                 renamed, attempted>>
  /\ UNCHANGED titleVars

Next ==
  \/ Discover
  \/ PlanFile
  \/ BumpOnDisk
  \/ BumpInPlan
  \/ PlanCommit
  \/ Preview
  \/ LogOpen
  \/ LogRow
  \/ LogClose
  \/ DryRunReturn
  \/ ApplyStart
  \/ RenameSkip
  \/ RenameOk
  \/ RenameFail
  \/ RenameDone

Spec == Init /\ [][Next]_vars

\* the planner of main alone (lines 147-194), on every tree and both ways of discovery
PlanInit == Init /\ ~apply /\ ~cwdInTree /\ csv = <<>>

PlanNext ==
  \/ Discover
  \/ PlanFile
  \/ BumpOnDisk
  \/ BumpInPlan
  \/ PlanCommit
  \/ Preview

\* the planner runs on: none of its steps waits on anything
PlanSpec == PlanInit /\ [][PlanNext]_vars /\ WF_vars(PlanNext)

\* ---------------------------------------------------------------- extract_title, step by step

\* extract_title is called on a stem; or a transform is about to be applied to it
TitleInit ==
  /\ MainIdle
  /\ stem \in Inputs
  /\ s = stem
  /\ tpc = "start"
  /\ fn = "none" /\ y1 = <<>> /\ y2 = <<>>

\* line 104
UnderscoreStep ==
  /\ tpc = "start"
  /\ s' = ReplaceUnderscores(s)
  /\ tpc' = "emojis"
  /\ UNCHANGED <<stem, fn, y1, y2>>
  /\ UNCHANGED mainVars

\* line 106
EmojiStep ==
  /\ tpc = "emojis"
  /\ s' = remove_emojis(s)
  /\ tpc' = "tags"
  /\ UNCHANGED <<stem, fn, y1, y2>>
  /\ UNCHANGED mainVars

\* line 108
TagStep ==
  /\ tpc = "tags"
  /\ s' = remove_known_tags(s)
  /\ tpc' = "brackets"
  /\ UNCHANGED <<stem, fn, y1, y2>>
  /\ UNCHANGED mainVars

\* line 110
BracketStep ==
  /\ tpc = "brackets"
  /\ s' = strip_brackets_and_parentheses(s)
  /\ tpc' = "leading"
  /\ UNCHANGED <<stem, fn, y1, y2>>
  /\ UNCHANGED mainVars

\* line 112
LeadingStep ==
  /\ tpc = "leading"
  /\ s' = strip_leading_noise(s)
  /\ tpc' = "segment"
  /\ UNCHANGED <<stem, fn, y1, y2>>
  /\ UNCHANGED mainVars

\* lines 116-121: a separator, so the best segment
SplitStep ==
  /\ tpc = "segment"
  /\ HasSeparator(s)
  /\ s' = choose_best_segment(SplitSeparators(s))
  /\ tpc' = "finish"
  /\ UNCHANGED <<stem, fn, y1, y2>>
  /\ UNCHANGED mainVars

\* lines 122-131: no separator, so the all-caps prefix
PrefixStep ==
  /\ tpc = "segment"
  /\ ~HasSeparator(s)
  /\ s' = DropCapsPrefix(s)
  /\ tpc' = "finish"
  /\ UNCHANGED <<stem, fn, y1, y2>>
  /\ UNCHANGED mainVars

\* lines 134-137
FinishStep ==
  /\ tpc = "finish"
  /\ s' = Finished(s)
  /\ tpc' = "fallback"
  /\ UNCHANGED <<stem, fn, y1, y2>>
  /\ UNCHANGED mainVars

\* lines 140-143
FallbackStep ==
  /\ tpc = "fallback"
  /\ s' = Fallback(s, stem)
  /\ tpc' = "returned"
  /\ UNCHANGED <<stem, fn, y1, y2>>
  /\ UNCHANGED mainVars

\* one of the Noise Stripper's transforms is applied to the stem
ApplyOnce ==
  /\ tpc = "start"
  /\ \E f \in Transforms :
       /\ fn' = f
       /\ y1' = Transform(f, stem)
  /\ tpc' = "once"
  /\ UNCHANGED <<stem, s, y2>>
  /\ UNCHANGED mainVars

\* and then to its own result
ApplyTwice ==
  /\ tpc = "once"
  /\ y2' = Transform(fn, y1)
  /\ tpc' = "twice"
  /\ UNCHANGED <<stem, s, fn, y1>>
  /\ UNCHANGED mainVars

TitleNext ==
  \/ UnderscoreStep
  \/ EmojiStep
  \/ TagStep
  \/ BracketStep
  \/ LeadingStep
  \/ SplitStep
  \/ PrefixStep
  \/ FinishStep
  \/ FallbackStep
  \/ ApplyOnce
  \/ ApplyTwice

TitleSpec == TitleInit /\ [][TitleNext]_vars

\* the steps compute extract_title
StepsAgree == tpc = "returned" => s = extract_title(stem)

\* ---------------------------------------------------------------- properties of main

\* the planning loop has run for every discovered file
PlanComplete ==
  /\ pc \in {"log", "logrows", "mode", "rename", "done"}
  /\ Len(mapping) = Len(files)

\* the plan has just been completed
PlanReady == pc = "log" /\ Len(mapping) = Len(files)

\* the position of source path f in the plan
PlanIndex(f) == CHOOSE i \in 1..Len(mapping) : mapping[i][1] = f

\* the destination planned for source path f
Dst(f) == mapping[PlanIndex(f)][2]

\* the log of a whole plan: the header, then one row per entry
FullLog(m) == <<CsvHeader>> \o [i \in 1..Len(m) |-> CsvRow(m[i])]

\* the positions among the first k of the plan whose source differs from the destination
ToDo(m, k) == SelectSeq([i \in 1..k |-> i], LAMBDA i : m[i][1] # m[i][2])

FailedLines == {i \in 1..Len(out) : out[i].kind = "FAILED to rename"}

\* C1: at every point of planning, no two plan entries with distinct sources have the
\* same destination.
C1_NoSharedDestination ==
  \A i, j \in 1..Len(mapping) :
    mapping[i][1] # mapping[j][1] => mapping[i][2] # mapping[j][2]

\* Two files of one directory whose un-suffixed candidates were the same are both planned.
C1_Witness ==
  \E i, j \in 1..Len(mapping) :
    /\ i < j
    /\ Parent(mapping[i][1]) = Parent(mapping[j][1])
    /\ NewNameOf(mapping[i][1]) = NewNameOf(mapping[j][1])

\* C2: whenever the executor is about to rename src to dst (src # dst), nothing exists
\* at dst, whatever the tree was and whichever earlier renames succeeded or failed.
C2_NoOverwrite ==
  (pc = "rename" /\ ri <= Len(mapping) /\ mapping[ri][1] # mapping[ri][2])
    => ~Exists(disk, mapping[ri][2])

\* A rename is due whose first candidate was taken on disk, after one rename that
\* succeeded and one that failed.
C2_Witness ==
  /\ pc = "rename" /\ ri <= Len(mapping) /\ mapping[ri][1] # mapping[ri][2]
  /\ Exists(disk0, WithName(mapping[ri][1], NewNameOf(mapping[ri][1])))
  /\ renamed >= 1
  /\ FailedLines # {}

\* p and q are the only two discovered files of their directory with this title and
\* this extension, p sorted first
TwoOfATitle(f, g) ==
  /\ PathLess(f, g)
  /\ Parent(f) = Parent(g)
  /\ TitleOf(f) = TitleOf(g)
  /\ Suffix(Name(f)) = Suffix(Name(g))
  /\ \A i \in 1..Len(files) :
       (/\ Parent(files[i]) = Parent(f)
        /\ TitleOf(files[i]) = TitleOf(f)
        /\ Suffix(Name(files[i])) = Suffix(Name(f))) => files[i] \in {f, g}

AloneWithName(f, g) ==
  LET N  == WithName(f, NewNameOf(f))
      N1 == WithName(f, Numbered(TitleOf(f), 1, f))
  IN  /\ PathLess(f, g)
      /\ Parent(f) = Parent(g)
      /\ NewNameOf(f) = NewNameOf(g)
      /\ \A i \in 1..Len(files) : NewNameOf(files[i]) = NewNameOf(f) => files[i] \in {f, g}
      /\ \A e \in disk0 : (e.path = N => e.path = f) /\ (e.path = N1 => e.path = g)
      /\ \A i \in 1..Len(mapping) :
           mapping[i][2] \in {N, N1} => mapping[i][1] \in {f, g}

C4_DryRunTreeUnchanged ==
  ~apply => {e.path : e \in disk} = {e.path : e \in disk0}

\* C4, amended: in a dry run every entry of the tree stays as it was and no rename is
\* ever called; the only entry that can appear is the log file rename_map.csv, when
\* the working directory is the target directory; at the end the preview has been
\* printed and the log holds the full plan.
C4_DryRunOnlyAddsLog ==
  ~apply =>
    /\ disk0 \subseteq disk
    /\ disk \ disk0 \subseteq (IF cwdInTree THEN {LogEntry} ELSE {})
    /\ attempted = <<>>
    /\ pc = "done" =>
         /\ out = PreviewLines(mapping) \o
                  <<Line("Mapping saved", MAP_CSV, <<>>, 0),
                    Line("Dry-run complete", <<>>, <<>>, 0)>>
         /\ csv = FullLog(mapping)

\* A dry run has ended whose plan would rename a file.
C4_Witness ==
  /\ ~apply
  /\ pc = "done"
  /\ \E i \in 1..Len(mapping) : mapping[i][1] # mapping[i][2]

\* C5: in apply mode the log holds the header and one row for every plan entry, the
\* entries that rename nothing included, from before the first rename is attempted on.
C5_LogBeforeRename ==
  (pc = "rename" \/ attempted # <<>>) => csv = FullLog(mapping)

\* Renaming is about to start on a plan that has an entry renaming nothing and one
\* that renames.
C5_Witness ==
  /\ pc = "rename" /\ ri = 1 /\ attempted = <<>>
  /\ \E i \in 1..Len(mapping) : mapping[i][1] = mapping[i][2]
  /\ \E i \in 1..Len(mapping) : mapping[i][1] # mapping[i][2]

\* C6: in apply mode the renames called so far are exactly the entries passed whose
\* source differs from the destination, each once and in plan order, whichever
\* failed; the count is the calls minus the failures; at the end every entry has been
\* passed and that count is the one reported.
C6_FailureIsolation ==
  (apply /\ pc \in {"rename", "done"}) =>
    /\ attempted = ToDo(mapping, ri - 1)
    /\ renamed = Len(attempted) - Cardinality(FailedLines)
    /\ pc = "done" =>
         /\ ri = Len(mapping) + 1
         /\ out[Len(out)] = Line("Rename complete", <<>>, <<>>, renamed)

\* A run has ended in which a rename failed, a later one succeeded and one entry
\* renamed nothing.
C6_Witness ==
  /\ apply /\ pc = "done"
  /\ \E i \in FailedLines : \E j \in 1..Len(attempted) :
       /\ attempted[j] > out[i].n
       /\ \A k \in FailedLines : out[k].n # attempted[j]
  /\ \E i \in 1..Len(mapping) : mapping[i][1] = mapping[i][2]

\* C10: the collision loop ends for every file, so planning gets to a plan with one
\* entry per discovered file; every pass of the loop adds one to the counter and
\* tries a candidate it has not tried for this file.
C10_PlanningTerminates ==
  /\ <>PlanComplete
  /\ [][(pc = "resolve" /\ pc' = "resolve") =>
          /\ count' = count + 1
          /\ candidate_name' \notin tried']_vars

\* The loop has rejected two candidates for one file.
C10_Witness == pc = "resolve" /\ Cardinality(tried) >= 2

\* the counter never gets to the cap of the guards
CountBelowCap == count < MaxCount

\* ---------------------------------------------------------------- properties of extract_title

\* the stem as it reaches the segmentation decision
Pre == Precleaned(stem)

\* C7: a stem without separator that, cleaned, is a token of 2-20 capitals, blanks
\* and a remainder with letters in it, yields the title of the remainder alone.
C7_CapsPrefixDropped ==
  (/\ tpc = "returned"
   /\ ~HasSeparator(stem)
   /\ ~HasSeparator(Pre)
   /\ PrefixMatches(Pre)
   /\ Count(Strip(PrefixGroup2(Pre)), IsAsciiLetter) > 0)
    => s = Finished(Strip(PrefixGroup2(Pre)))

\* C8 as claimed: a stem with a character that is neither one of <>:"/\|?* nor a
\* control character yields a non-empty title.
C8_NonEmpty ==
  (tpc = "returned" /\ \E i \in 1..Len(stem) : ~IsUnsafe(stem[i])) => s # <<>>

\* C8, amended: a stem with a character that is neither one of <>:"/\|?*, nor a
\* control character, nor whitespace yields a non-empty title.
C8_NonEmptyUnlessBlank ==
  (tpc = "returned" /\ \E i \in 1..Len(stem) : ~IsUnsafe(stem[i]) /\ ~IsSpace(stem[i]))
    => s # <<>>

\* extract_title has returned a title that only the fallback made non-empty.
C8_Witness ==
  /\ tpc = "returned"
  /\ Cleaned(stem) = <<>>
  /\ s # <<>>

\* C9 as claimed: each of the seven transforms gives the same string applied twice
\* as applied once.
C9_Idempotent == tpc = "twice" => y2 = y1

\* C9, amended: each transform other than remove_known_tags gives the same string
\* applied twice as applied once.
C9_IdempotentButTags ==
  (tpc = "twice" /\ fn # "remove_known_tags") => y2 = y1

\* A transform other than remove_known_tags has been applied twice to a stem it changes.
C9_Witness ==
  /\ tpc = "twice"
  /\ fn = "strip_brackets_and_parentheses"
  /\ y1 # stem

====
